---- MODULE Spec2Model ----
(***************************************************************************)
(* Model of app_evaluacion_desempeno.py: the RH evaluation form (goal and  *)
(* factor level buttons kept in st.session_state), the Save handler        *)
(* (duplicate check, insert, cache clear) against the evaluaciones table,  *)
(* and the cached evaluation list read by the administrator panel.         *)
(*                                                                         *)
(* Every Streamlit interaction reruns the script from the top, so every    *)
(* action below is one script run of one browser session.  The storage     *)
(* calls inside Save are separate steps of the run: other sessions' runs   *)
(* execute in their own threads and can take steps between them.           *)
(*                                                                         *)
(* Floats that are goal amounts are kept in hundredths (x100), NaN is an   *)
(* explicit value.                                                         *)
(***************************************************************************)
EXTENDS Integers, Sequences, FiniteSets, TLC

\* ------------------------------------------------------------------ bounds
MaxClicks == 1      \* level-button clicks in a behaviour
MaxRows   == 2      \* rows the evaluaciones table may reach
MaxTicks  == 1      \* month changes of the wall clock

\* ------------------------------------------------------------- float model
NaN == -1           \* float('nan'); every real amount of the model is >= 0

\* bool(x) of a float: zero is falsy, NaN is truthy
Truthy(x) == x # 0

\* x * (pct / 100.0), result in hundredths; NaN propagates
FMulPct(x, pct) == IF x = NaN THEN NaN ELSE x * pct

\* --------------------------------------------------------- trabajadores
\* raw column values as PostgREST returns them
Num(v)  == [k |-> "num",   v |-> v]
Null    == [k |-> "null",  v |-> 0]
Vacio   == [k |-> "empty", v |-> 0]
Texto   == [k |-> "text",  v |-> 0]

\* the trabajadores table (read only for this program)
TrabajadoresDB ==
    << [id |-> 1, nombre |-> "ANA",  dependencia |-> "Secretaria de Salud",
        area_adscripcion |-> "Hospital General", puesto |-> "Medico",
        meta_prog |-> << Num(80), Num(100), Num(0) >>],
       [id |-> 2, nombre |-> "LUIS", dependencia |-> " SECRETARIA DE SALUD ",
        area_adscripcion |-> "Hospital General", puesto |-> "Enfermero",
        meta_prog |-> << Null, Vacio, Texto >>],
       [id |-> 3, nombre |-> "EVA",  dependencia |-> "Secretaria de Educacion",
        area_adscripcion |-> "Escuelas", puesto |-> "Docente",
        meta_prog |-> << Num(80), Num(100), Num(0) >>],
       [id |-> 4, nombre |-> "ANA",  dependencia |-> "Secretaria de Salud",
        area_adscripcion |-> "Centro de Salud", puesto |-> "Enfermero",
        meta_prog |-> << Num(80), Num(100), Num(0) >>] >>

\* pd.to_numeric(errors="coerce")
to_numeric(raw) == IF raw.k = "num" THEN raw.v ELSE NaN

\* cargar_trabajadores(): the table with meta*_prog coerced to numbers
cargar_trabajadores ==
    [i \in DOMAIN TrabajadoresDB |->
        [TrabajadoresDB[i] EXCEPT
            !.meta_prog = [j \in 1..3 |-> to_numeric(TrabajadoresDB[i].meta_prog[j])]]]

trabajadores == cargar_trabajadores

\* ------------------------------------------------------------ sessions
Sessions == {"s1", "s2"}      \* RH browser sessions
Admins   == {"a1"}            \* administrator browser sessions

\* role table entries used by the sessions of the model
roles ==
    [rh_salud        |-> [password |-> "rsalud123",     rol |-> "rh",
                          area |-> "Secretaria de Salud"],
     admin_global    |-> [password |-> "admin123",      rol |-> "admin_global",
                          area |-> "TODAS"],
     admin_salud     |-> [password |-> "asalud123",     rol |-> "admin_area",
                          area |-> "Secretaria de Salud"],
     admin_educacion |-> [password |-> "aeducacion123", rol |-> "admin_area",
                          area |-> "Secretaria de Educacion"]]

\* per RH session: what is typed in the two text inputs of the RH mode
VARIABLE login

\* usuario = st.text_input(...) of the RH mode
usuario == [s \in Sessions |-> login[s].usuario]

\* slip: the role of the user is not tested
AccesoRH_mut(usr, pw) ==
    /\ usr \in DOMAIN roles
    /\ pw = roles[usr].password

\* usuario in roles and password == roles[usuario]["password"]
\*   and roles[usuario]["rol"] == "rh"
AccesoRH(usr, pw) ==
    /\ usr \in DOMAIN roles
    /\ pw = roles[usr].password
    /\ roles[usr].rol = "rh"

\* str.strip().str.lower() on the dependency names of the model
StripLower(x) ==
    CASE x = "Secretaria de Salud"     -> "secretaria de salud"
      [] x = " SECRETARIA DE SALUD "   -> "secretaria de salud"
      [] x = "Secretaria de Educacion" -> "secretaria de educacion"
      [] x = "TODAS"                   -> "todas"
      [] OTHER -> x

\* slip: the dependency filter is left out
trabajadores_filtrados_mut(s) == trabajadores

\* trabajadores_filtrados: rows of the RH user's dependency
trabajadores_filtrados(s) ==
    SelectSeq(trabajadores,
              LAMBDA t : StripLower(t.dependencia) = StripLower(roles[usuario[s]].area))

\* drop_duplicates(subset=["nombre"]): keep the first row of each name
trabajadores_unicos(s) ==
    LET f == trabajadores_filtrados(s)
        Keep[i \in 0..Len(f)] ==
            IF i = 0 THEN << >>
            ELSE IF \E j \in 1..(i-1) : f[j].nombre = f[i].nombre
                 THEN Keep[i-1]
                 ELSE Append(Keep[i-1], f[i])
    IN  Keep[Len(f)]

lista_nombres(s) == { trabajadores_unicos(s)[i].nombre : i \in DOMAIN trabajadores_unicos(s) }

\* trabajadores_unicos[nombre == seleccionado].iloc[0]
trab(s, nombre) ==
    LET u == trabajadores_unicos(s)
        i == CHOOSE i \in DOMAIN u :
                /\ u[i].nombre = nombre
                /\ \A j \in 1..(i-1) : u[j].nombre # nombre
    IN  u[i]

\* --------------------------------------------------------------- goals
Metas == 1..3

\* meta_bloques.niveles: (nivel, min_pct, max_pct, pct_guardado)
niveles ==
    << [nivel |-> 1, min_pct |-> 0,  max_pct |-> 25,  pct_guardado |-> 25],
       [nivel |-> 2, min_pct |-> 26, max_pct |-> 50,  pct_guardado |-> 50],
       [nivel |-> 3, min_pct |-> 51, max_pct |-> 75,  pct_guardado |-> 75],
       [nivel |-> 4, min_pct |-> 76, max_pct |-> 100, pct_guardado |-> 100] >>

\* the four level buttons drawn for a goal and for a factor
BotonesMeta   == { niveles[j].nivel : j \in DOMAIN niveles }
BotonesFactor == { i + 1 : i \in 0..3 }

\* slip: the lower end of the band is taken instead of the stored percentage
pct_guardado_mut(nivel_final) ==
    LET j == CHOOSE j \in DOMAIN niveles : niveles[j].nivel = nivel_final
    IN  niveles[j].min_pct

\* next((mn, mx, pg) for ... if n == nivel_final)
pct_guardado(nivel_final) ==
    LET j == CHOOSE j \in DOMAIN niveles :
                /\ niveles[j].nivel = nivel_final
                /\ \A h \in 1..(j-1) : niveles[h].nivel # nivel_final
    IN  niveles[j].pct_guardado

\* ------------------------------------------------------------- factors
\* FACTORES_ORDEN: (factor_id, etiqueta)
FACTORES_ORDEN ==
    << << "conocimiento",    "CONOCIMIENTO DEL PUESTO" >>,
       << "criterio",        "CRITERIO" >>,
       << "calidad",         "CALIDAD DEL TRABAJO" >>,
       << "tecnica",         "TECNICA Y ORGANIZACION DEL TRABAJO" >>,
       << "supervision",     "NECESIDAD DE SUPERVISION" >>,
       << "capacitacion",    "CAPACITACION RECIBIDA" >>,
       << "iniciativa",      "INICIATIVA" >>,
       << "colaboracion",    "COLABORACION Y DISCRECION" >>,
       << "responsabilidad", "RESPONSABILIDAD Y DISCIPLINA" >>,
       << "equipo",          "TRABAJO EN EQUIPO" >>,
       << "relaciones",      "RELACIONES INTERPERSONALES" >>,
       << "mejora",          "MEJORA CONTINUA" >> >>

\* slip: the columns of two labels are exchanged
map_factores_mut ==
    << << "CONOCIMIENTO DEL PUESTO",            "conocimiento" >>,
       << "CRITERIO",                           "calidad" >>,
       << "CALIDAD DEL TRABAJO",                "criterio" >>,
       << "TECNICA Y ORGANIZACION DEL TRABAJO", "tecnica" >>,
       << "NECESIDAD DE SUPERVISION",           "supervision" >>,
       << "CAPACITACION RECIBIDA",              "capacitacion" >>,
       << "INICIATIVA",                         "iniciativa" >>,
       << "COLABORACION Y DISCRECION",          "colaboracion" >>,
       << "RESPONSABILIDAD Y DISCIPLINA",       "responsabilidad" >>,
       << "TRABAJO EN EQUIPO",                  "equipo" >>,
       << "RELACIONES INTERPERSONALES",         "relaciones" >>,
       << "MEJORA CONTINUA",                    "mejora" >> >>

\* map_factores: etiqueta -> column of evaluaciones
map_factores ==
    << << "CONOCIMIENTO DEL PUESTO",            "conocimiento" >>,
       << "CRITERIO",                           "criterio" >>,
       << "CALIDAD DEL TRABAJO",                "calidad" >>,
       << "TECNICA Y ORGANIZACION DEL TRABAJO", "tecnica" >>,
       << "NECESIDAD DE SUPERVISION",           "supervision" >>,
       << "CAPACITACION RECIBIDA",              "capacitacion" >>,
       << "INICIATIVA",                         "iniciativa" >>,
       << "COLABORACION Y DISCRECION",          "colaboracion" >>,
       << "RESPONSABILIDAD Y DISCIPLINA",       "responsabilidad" >>,
       << "TRABAJO EN EQUIPO",                  "equipo" >>,
       << "RELACIONES INTERPERSONALES",         "relaciones" >>,
       << "MEJORA CONTINUA",                    "mejora" >> >>

FactorIds == { FACTORES_ORDEN[i][1] : i \in DOMAIN FACTORES_ORDEN }
Etiquetas == { FACTORES_ORDEN[i][2] : i \in DOMAIN FACTORES_ORDEN }
Columnas  == { map_factores[i][2] : i \in DOMAIN map_factores }


\* sum(calidad.values()) over the labels in insertion order
RECURSIVE SumaCalidad(_, _)
SumaCalidad(calidad, n) ==
    IF n = 0 THEN 0
    ELSE calidad[FACTORES_ORDEN[n][2]] + SumaCalidad(calidad, n - 1)

\* slip: the last factor is left out of the sum
puntaje_total_mut(calidad) == SumaCalidad(calidad, Len(FACTORES_ORDEN) - 1)

\* puntaje_total = int(sum(calidad.values()))
puntaje_total(calidad) == SumaCalidad(calidad, Len(FACTORES_ORDEN))

\* ------------------------------------------------------- session state
Ausente == 0        \* the key is not in st.session_state

WorkerIds == { TrabajadoresDB[i].id : i \in DOMAIN TrabajadoresDB }

\* slip: the lowest level is stored whatever default was passed
init_key_mut(v, default) == IF v = Ausente THEN 1 ELSE v

\* if state_key not in st.session_state: st.session_state[state_key] = int(default)
init_key(v, default) == IF v = Ausente THEN default ELSE v

\* default_level=1 of the meta_bloques calls, default=2 of the matriz_seleccionable calls
default_level == 1
default_factor == 2

\* one script run of the form for worker w: meta_bloques for the three goals,
\* matriz_seleccionable for the twelve factors create the missing keys
Render(st, w) ==
    [st EXCEPT ![w] =
        [meta  |-> [i \in Metas |-> init_key(st[w].meta[i], default_level)],
         nivel |-> [f \in FactorIds |-> init_key(st[w].nivel[f], default_factor)]]]

\* slip: the key is built without meta_idx, one key for the three goals
_set_level_mut(st, w, i, val) == [st EXCEPT ![w].meta = [j \in Metas |-> val]]

\* _set_level(sk, val) for the key meta_{ctx}_{meta_idx}_nivel
_set_level(st, w, i, val) == [st EXCEPT ![w].meta[i] = val]

\* slip: the button index is stored one too high
_set_nivel_mut(st, w, f, val) == [st EXCEPT ![w].nivel[f] = val + 1]

\* _set_nivel(sk, val) for the key nivel_{ctx}_{factor_id}
_set_nivel(st, w, f, val) == [st EXCEPT ![w].nivel[f] = val]

\* prog = float(prog_val) if prog_val not in ("", None) else 0.0
\* (prog_val comes out of to_numeric: a float, possibly NaN, never "" or None)
prog_de(prog_val) == prog_val

\* slip: the percentage is not applied
meta_real_de_mut(prog, pct) == IF Truthy(prog) THEN FMulPct(prog, 100) ELSE 0

\* meta_real[f"meta{i}_real"] = float(prog) * (pct_guardado / 100.0) if prog else 0.0
meta_real_de(prog, pct) == IF Truthy(prog) THEN FMulPct(prog, pct) ELSE 0

\* calidad[etiqueta] = matriz_seleccionable(ctx, factor_id, ...)
calidad_de(st, w) ==
    [e \in Etiquetas |->
        LET i == CHOOSE i \in DOMAIN FACTORES_ORDEN : FACTORES_ORDEN[i][2] = e
        IN  st[w].nivel[FACTORES_ORDEN[i][1]]]

\* the values one run of the RH form computes before the Save button
Locales(st, t, fecha) ==
    [trabajador_id |-> t.id,
     dia  |-> fecha.dia,
     mes  |-> fecha.mes,
     anio |-> fecha.anio,
     resultados |-> [i \in Metas |-> pct_guardado(st[t.id].meta[i])],
     meta_real  |-> [i \in Metas |->
                        meta_real_de(prog_de(t.meta_prog[i]), pct_guardado(st[t.id].meta[i]))],
     calidad |-> calidad_de(st, t.id),
     puntaje_total |-> puntaje_total(calidad_de(st, t.id))]

\* nueva_eval: the row handed to insert
nueva_eval(l) ==
    [trabajador_id |-> l.trabajador_id,
     dia  |-> l.dia,
     mes  |-> l.mes,
     anio |-> l.anio,
     meta_real  |-> l.meta_real,
     resultado  |-> l.resultados,
     puntaje_total |-> l.puntaje_total,
     factores |-> [c \in Columnas |->
                     LET i == CHOOSE i \in DOMAIN map_factores : map_factores[i][2] = c
                     IN  l.calidad[map_factores[i][1]]]]

\* select("id").match({trabajador_id, mes, anio}) on evaluaciones
Match(tabla, l) ==
    SelectSeq(tabla, LAMBDA r : /\ r.trabajador_id = l.trabajador_id
                                /\ r.mes = l.mes
                                /\ r.anio = l.anio)

\* slip: the result of the duplicate query is ignored
HayDuplicado_mut(existe) == FALSE

\* if existe.data:
HayDuplicado(existe) == existe # << >>

\* slip: success is reported whatever the insert returned
MensajeInsert_mut(resp_data) == "exito"

\* if resp.data: st.success(...) else: st.error(...)
MensajeInsert(resp_data) == IF resp_data # << >> THEN "exito" ELSE "error"

\* slip: the insert is issued a second time
InsertRows_doble(tabla, escritas) == tabla \o escritas \o escritas

\* slip: upsert() instead of insert(): the stored row of the same worker and
\* month is replaced
InsertRows_upsert(tabla, escritas) ==
    SelectSeq(tabla, LAMBDA r : \A k \in DOMAIN escritas :
                                   \/ r.trabajador_id # escritas[k].trabajador_id
                                   \/ r.mes # escritas[k].mes
                                   \/ r.anio # escritas[k].anio) \o escritas

\* supabase.table("evaluaciones").insert(nueva_eval).execute(): the table after
\* the call, the rows it wrote appended
InsertRows(tabla, escritas) == tabla \o escritas

\* ------------------------------------------------------ evaluation list
\* the worker a row's trabajador_id refers to (the FK join of the select)
TrabajadorDe(id) ==
    LET i == CHOOSE i \in DOMAIN TrabajadoresDB : TrabajadoresDB[i].id = id
    IN  TrabajadoresDB[i]

\* a JSON null in a numeric column of evaluaciones (Save writes none; rows
\* written by other clients of the table may carry one)
SqlNull == -2

\* the JSON value of a numeric cell, as pd.to_numeric sees it
Crudo(v) == IF v = SqlNull THEN Null ELSE Num(v)

\* slip: the last factor column is missing from the column list
select_evaluaciones_mut ==
    << "id", "trabajador_id", "dia", "mes", "anio",
       "meta1_real", "meta2_real", "meta3_real", "resultado1", "resultado2", "resultado3",
       "conocimiento", "criterio", "calidad", "tecnica", "supervision", "capacitacion",
       "iniciativa", "colaboracion", "responsabilidad", "equipo", "relaciones",
       "puntaje_total" >>

\* the column list of select(...) on evaluaciones (comentarios, free text, is
\* not carried by the rows of the model)
select_evaluaciones ==
    << "id", "trabajador_id", "dia", "mes", "anio",
       "meta1_real", "meta2_real", "meta3_real", "resultado1", "resultado2", "resultado3",
       "conocimiento", "criterio", "calidad", "tecnica", "supervision", "capacitacion",
       "iniciativa", "colaboracion", "responsabilidad", "equipo", "relaciones", "mejora",
       "puntaje_total" >>

\* the value storage returns for column c of the stored row r with this id
Celda(r, id, c) ==
    CASE c = "id"            -> id
      [] c = "trabajador_id" -> r.trabajador_id
      [] c = "dia"           -> r.dia
      [] c = "mes"           -> r.mes
      [] c = "anio"          -> r.anio
      [] c = "meta1_real"    -> r.meta_real[1]
      [] c = "meta2_real"    -> r.meta_real[2]
      [] c = "meta3_real"    -> r.meta_real[3]
      [] c = "resultado1"    -> r.resultado[1]
      [] c = "resultado2"    -> r.resultado[2]
      [] c = "resultado3"    -> r.resultado[3]
      [] c = "puntaje_total" -> r.puntaje_total
      [] OTHER               -> r.factores[c]

\* plano: the selected columns of one row plus the fields of the joined worker
plano(r, id) ==
    [c \in { select_evaluaciones[k] : k \in DOMAIN select_evaluaciones } |-> Celda(r, id, c)]
    @@ [nombre       |-> TrabajadorDe(r.trabajador_id).nombre,
        dependencia  |-> TrabajadorDe(r.trabajador_id).dependencia,
        area_general |-> TrabajadorDe(r.trabajador_id).area_adscripcion]

\* df[c] = pd.to_numeric(df[c], errors="coerce") for the columns of cs the frame has
Tipificar(p, cs) ==
    [c \in DOMAIN p |-> IF c \in cs THEN to_numeric(Crudo(p[c])) ELSE p[c]]

\* the periodo label "mes/anio", "" when one of the two is missing
periodo_de(p) ==
    IF p["mes"] # NaN /\ p["anio"] # NaN THEN << p["mes"], p["anio"] >> ELSE << >>

\* body of cargar_evaluaciones_join(): one frame row per stored row, in storage
\* order; an exception gives an empty frame
cargar_evaluaciones_join(tabla, ok) ==
    IF ~ok THEN << >>
    ELSE [i \in 1..Len(tabla) |->
            LET p == Tipificar(plano(tabla[i], i), { "dia", "mes", "anio", "puntaje_total" })
            IN  IF { "mes", "anio" } \subseteq DOMAIN p
                THEN p @@ [periodo |-> periodo_de(p)]
                ELSE p]

\* ----------------------------------------------------- administrator panel
\* a missing value (None / NaN) in a text column of a frame
Faltante == "NaN"

\* the filter choices of a run; the first option of every selectbox
SinFiltros ==
    [nombre |-> "(Todos)", dependencia |-> "(Todas)",
     area   |-> "(Todas)", puesto      |-> "(Todos)"]

\* roles[usuario]["rol"].startswith("admin")
EsAdmin(usr) == roles[usr].rol \in { "admin_global", "admin_area" }

\* usuario in roles and password == roles[usuario]["password"]
\*   and roles[usuario]["rol"].startswith("admin")
AccesoAdmin(usr, pw) ==
    /\ usr \in DOMAIN roles
    /\ pw = roles[usr].password
    /\ EsAdmin(usr)

\* df_eval = evaluaciones_df.copy(): the rows with their index labels 0..n-1
ConEtiquetas(df) == [k \in DOMAIN df |-> [etq |-> k - 1, fila |-> df[k]]]

\* slip: df.empty is never true
EstaVacio_mut(d) == FALSE

\* df_eval.empty
EstaVacio(d) == d = << >>

\* slip: the rows are not restricted to the permitted dependency
Alcance_mut(d, rol_usuario, dependencia_permitida) == d

\* if rol_usuario != "admin_global": keep the rows whose dependencia, stripped
\* and lower-cased, equals the permitted one; the rows keep their labels
Alcance(d, rol_usuario, dependencia_permitida) ==
    IF rol_usuario # "admin_global"
    THEN SelectSeq(d, LAMBDA x : StripLower(x.fila["dependencia"])
                                    = StripLower(dependencia_permitida))
    ELSE d

\* sorted(df_eval[c].dropna().unique().tolist()), as a set
Valores(d, c) == { d[k].fila[c] : k \in DOMAIN d } \ { Faltante }

\* df_eval.merge(trabajadores[["id", "puesto"]], left_on="trabajador_id",
\* right_on="id", how="left")["puesto"]: for every row of df_eval in order one
\* entry per worker row with its id (one missing value when there is none),
\* under a new index 0..n-1
RECURSIVE puestos_merge(_)
puestos_merge(d) ==
    IF d = << >> THEN << >>
    ELSE LET ms == SelectSeq(trabajadores,
                             LAMBDA t : t.id = Head(d).fila["trabajador_id"])
         IN  (IF ms = << >> THEN << Faltante >>
              ELSE [k \in DOMAIN ms |-> ms[k].puesto]) \o puestos_merge(Tail(d))

\* df_eval["puesto"] = puestos_merge["puesto"]: the assignment aligns on the
\* index label; a label the right side does not have gets a missing value
AsignarPuesto(d, m) ==
    [k \in DOMAIN d |->
        [etq  |-> d[k].etq,
         fila |-> d[k].fila @@
                  [puesto |-> IF d[k].etq + 1 \in DOMAIN m
                              THEN m[d[k].etq + 1] ELSE Faltante]]]

\* df_eval[df_eval[c] == v]
Filtrar(d, c, v) == SelectSeq(d, LAMBDA x : x.fila[c] = v)

\* the four filters, applied one after the other
AplicarFiltros(d, rol_usuario, f) ==
    LET d1 == IF f.nombre # "(Todos)" THEN Filtrar(d, "nombre", f.nombre) ELSE d
        d2 == IF rol_usuario = "admin_global" /\ f.dependencia # "(Todas)"
              THEN Filtrar(d1, "dependencia", f.dependencia) ELSE d1
        d3 == IF f.area # "(Todas)" THEN Filtrar(d2, "area_general", f.area) ELSE d2
        d4 == IF f.puesto # "(Todos)" THEN Filtrar(d3, "puesto", f.puesto) ELSE d3
    IN  d4

RECURSIVE SumaSerie(_)
SumaSerie(xs) == IF xs = << >> THEN 0 ELSE Head(xs) + SumaSerie(Tail(xs))

\* round(x, 2) of the quotient s / n, in hundredths (a quotient of integers by
\* fewer than 8 has no third decimal equal to 5, so no tie arises)
Redondear2(s, n) == (200 * s + n) \div (2 * n)

\* round(pd.to_numeric(df_eval["puntaje_total"], errors="coerce").mean(), 2):
\* the column is numeric already, mean() leaves the NaN cells out and is NaN
\* when no cell is left
promedio_general(d) ==
    LET serie == [k \in DOMAIN d |-> d[k].fila["puntaje_total"]]
        validos == SelectSeq(serie, LAMBDA x : x # NaN)
    IN  IF validos = << >> THEN NaN
        ELSE Redondear2(SumaSerie(validos), Len(validos))

\* the options the four selectboxes of a run offer besides the first one
Opciones(d, rol_usuario) ==
    [nombres      |-> Valores(d, "nombre"),
     dependencias |-> IF rol_usuario = "admin_global" THEN Valores(d, "dependencia") ELSE { },
     areas        |-> Valores(d, "area_general"),
     puestos      |-> { puestos_merge(d)[k] : k \in DOMAIN puestos_merge(d) } \ { Faltante }]

\* what a run of the panel displays for the frame df, the user usr and the
\* filter choices f; st.stop() ends the run at the first warning
Panel(df, usr, f) ==
    LET rol_usuario == roles[usr].rol
        dependencia_permitida == roles[usr].area
        d0 == ConEtiquetas(df)
        d1 == Alcance(d0, rol_usuario, dependencia_permitida)
        d2 == AsignarPuesto(d1, puestos_merge(d1))
        d3 == AplicarFiltros(d2, rol_usuario, f)
        nada == [usuario |-> usr, filtros |-> f, estado |-> "rechazado",
                 opciones |-> Opciones(<< >>, rol_usuario), filas |-> << >>,
                 registros |-> << >>, promedio |-> << >>, total_evals |-> << >>]
    IN  IF ~EsAdmin(usr) THEN nada
        ELSE IF EstaVacio(d0) THEN [nada EXCEPT !.estado = "sin_evaluaciones"]
        ELSE IF EstaVacio(d1) THEN [nada EXCEPT !.estado = "sin_dependencia"]
        ELSE IF EstaVacio(d3)
             THEN [nada EXCEPT !.estado = "sin_coincidencias",
                               !.opciones = Opciones(d1, rol_usuario),
                               !.registros = << Len(d3) >>]
             ELSE [nada EXCEPT !.estado = "ok",
                               !.opciones = Opciones(d1, rol_usuario),
                               !.filas = d3,
                               !.registros = << Len(d3) >>,
                               !.promedio = << promedio_general(d3) >>,
                               !.total_evals = << Len(d3) >>]

\* a run of the administrator mode with the typed pair usr, pw: the panel when
\* the pair passes the test, else nothing of it (st.error when a password
\* was typed)
PanelAcceso(df, usr, pw, f) ==
    IF AccesoAdmin(usr, pw)
    THEN Panel(df, usr, f) @@ [password |-> pw]
    ELSE [usuario |-> usr, password |-> pw, filtros |-> f, estado |-> "rechazado",
          opciones |-> [nombres |-> { }, dependencias |-> { }, areas |-> { },
                        puestos |-> { }],
          filas |-> << >>, registros |-> << >>, promedio |-> << >>,
          total_evals |-> << >>]

\* the filter choices a user can make in a run: one option of each selectbox
\* the run draws (none is drawn when the run stops before the filters)
Ofrecidos(df, usr) ==
    LET d1 == Alcance(ConEtiquetas(df), roles[usr].rol, roles[usr].area)
        o == Opciones(d1, roles[usr].rol)
    IN  IF ~EsAdmin(usr) \/ EstaVacio(d1) THEN { SinFiltros }
        ELSE [nombre      : { "(Todos)" } \cup o.nombres,
              dependencia : { "(Todas)" } \cup o.dependencias,
              area        : { "(Todas)" } \cup o.areas,
              puesto      : { "(Todos)" } \cup o.puestos]

\* slip: the duplicate is looked up in the cached evaluation list when there
\* is one
existe_cache(tabla, c, l) ==
    IF c = << >> THEN Match(tabla, l)
    ELSE SelectSeq(c[1].df, LAMBDA x : /\ x["trabajador_id"] = l.trabajador_id
                                       /\ x["mes"] = l.mes
                                       /\ x["anio"] = l.anio)

\* existe = supabase.table("evaluaciones").select("id").match({...}).execute():
\* the query is answered by storage; the cache entry c of
\* cargar_evaluaciones_join is not consulted
existe(tabla, c, l) == Match(tabla, l)

\* slip: the cached entry is kept
CacheClear_mut(c) == c

\* cargar_evaluaciones_join.clear()
CacheClear(c) == << >>


\* ===================================================================
\* State
\* ===================================================================
\* (login, declared with the role table, is one more variable)
VARIABLES
    evaluaciones,      \* the evaluaciones table: rows in insertion order (id = position)
    disponible,        \* storage answers calls (TRUE) or every call raises (FALSE)
    cache,             \* st.cache_data entry of cargar_evaluaciones_join: << >> or << entry >>
    hoy,               \* datetime.now(): dia, mes, anio
    seleccionado,      \* per RH session: the name chosen in the worker selectbox
    session_state,     \* per RH session: st.session_state level keys, per worker context
    pc,                \* per RH session: position of the running Save ("idle" between runs)
    loc,               \* per RH session: locals of the run that is executing Save
    msg,               \* per RH session: what the last run reported
    resp,              \* per RH session: resp.data of the insert of the running Save
    evaluaciones_df,   \* per admin session: the frame its last run loaded
    panel,             \* per admin session: what its last run displayed
    clicks             \* level-button clicks so far

vars == << evaluaciones, disponible, cache, hoy, login, seleccionado, session_state,
           pc, loc, msg, resp, evaluaciones_df, panel, clicks >>

\* the session contents an RH session starts from: untouched (Ausente) or
\* every level button of every worker already clicked at one level
Previas == { Ausente, 1, 4 }

HoyInicial == [dia |-> 15, mes |-> 12, anio |-> 2025]

\* months elapsed since HoyInicial
Transcurridos(f) == (f.anio - HoyInicial.anio) * 12 + (f.mes - HoyInicial.mes)

\* sorted(lista_nombres)[0]: the selectbox starts on its first option
PrimerNombre(s) ==
    CHOOSE n \in lista_nombres(s) :
        \A m \in lista_nombres(s) : trab(s, n).id <= trab(s, m).id

\* the st.cache_data wrapper: a stored entry is returned, a miss runs the body
\* and stores what it returned (stamp = rows in storage when the entry was made)
CacheAfterLoad ==
    IF cache # << >> THEN cache
    ELSE << [df |-> cargar_evaluaciones_join(evaluaciones, disponible),
             stamp |-> Len(evaluaciones)] >>

\* the pair of the RH user of Secretaria de Salud
LoginRH == [usuario |-> "rh_salud", password |-> roles["rh_salud"].password]

InitCon(previas) ==
    /\ evaluaciones = << >>
    /\ disponible = TRUE
    /\ cache = << >>
    /\ hoy = HoyInicial
    /\ login = [s \in Sessions |-> LoginRH]
    /\ seleccionado = [s \in Sessions |-> PrimerNombre(s)]
    /\ \E previa \in previas :
          session_state =
            [s \in Sessions |->
                Render([w \in WorkerIds |->
                          [meta  |-> [i \in Metas |-> previa[s]],
                           nivel |-> [f \in FactorIds |-> previa[s]]]],
                       trab(s, PrimerNombre(s)).id)]
    /\ pc = [s \in Sessions |-> "idle"]
    /\ loc = [s \in Sessions |-> << >>]
    /\ msg = [s \in Sessions |-> ""]
    /\ resp = [s \in Sessions |-> << >>]
    /\ evaluaciones_df = [a \in Admins |-> << >>]
    /\ panel = [a \in Admins |->
                   PanelAcceso(<< >>, "admin_global", roles["admin_global"].password,
                               SinFiltros)]
    /\ clicks = 0

\* two RH sessions whose forms are both untouched or were both filled in before
\* (one at the top level, one at the bottom level)
Init ==
    InitCon({ p \in [Sessions -> Previas] :
                 \/ p["s1"] = Ausente /\ p["s2"] = Ausente
                 \/ p["s1"] = 4 /\ p["s2"] = 1 })

\* one RH session at work, the other never used
InitForm == InitCon({ p \in [Sessions -> Previas] : p["s2"] = Ausente })

\* ===================================================================
\* Script runs of an RH session
\* ===================================================================
\* the selectbox changes: rerun, the form of the new worker is rendered
SelectWorker(s, nombre) ==
    /\ pc[s] = "idle"
    /\ AccesoRH(login[s].usuario, login[s].password)
    /\ nombre \in lista_nombres(s)
    /\ nombre # seleccionado[s]
    /\ seleccionado' = [seleccionado EXCEPT ![s] = nombre]
    /\ session_state' = [session_state EXCEPT ![s] = Render(@, trab(s, nombre).id)]
    /\ cache' = CacheAfterLoad
    /\ msg' = [msg EXCEPT ![s] = ""]
    /\ UNCHANGED << evaluaciones, disponible, hoy, login, pc, loc, resp, evaluaciones_df, panel, clicks >>

\* a goal level button: on_click=_set_level, then the rerun
ClickMeta(s, i, nivel) ==
    /\ pc[s] = "idle"
    /\ AccesoRH(login[s].usuario, login[s].password)
    /\ clicks < MaxClicks
    /\ LET w == trab(s, seleccionado[s]).id
       IN  session_state' = [session_state EXCEPT
                                ![s] = Render(_set_level(@, w, i, nivel), w)]
    /\ clicks' = clicks + 1
    /\ cache' = CacheAfterLoad
    /\ msg' = [msg EXCEPT ![s] = ""]
    /\ UNCHANGED << evaluaciones, disponible, hoy, login, seleccionado, pc, loc, resp, evaluaciones_df, panel >>

\* a factor level button: on_click=_set_nivel, then the rerun
ClickFactor(s, f, n) ==
    /\ pc[s] = "idle"
    /\ AccesoRH(login[s].usuario, login[s].password)
    /\ clicks < MaxClicks
    /\ LET w == trab(s, seleccionado[s]).id
       IN  session_state' = [session_state EXCEPT
                                ![s] = Render(_set_nivel(@, w, f, n), w)]
    /\ clicks' = clicks + 1
    /\ cache' = CacheAfterLoad
    /\ msg' = [msg EXCEPT ![s] = ""]
    /\ UNCHANGED << evaluaciones, disponible, hoy, login, seleccionado, pc, loc, resp, evaluaciones_df, panel >>

\* the "Guardar Evaluacion" button: the rerun renders the form, computes the
\* values of the row and enters the handler
ClickGuardar(s) ==
    /\ pc[s] = "idle"
    /\ AccesoRH(login[s].usuario, login[s].password)
    /\ Len(evaluaciones) < MaxRows
    /\ LET t  == trab(s, seleccionado[s])
           st == Render(session_state[s], t.id)
       IN  /\ session_state' = [session_state EXCEPT ![s] = st]
           /\ loc' = [loc EXCEPT ![s] = << Locales(st, t, hoy) >>]
    /\ pc' = [pc EXCEPT ![s] = "check"]
    /\ cache' = CacheAfterLoad
    /\ msg' = [msg EXCEPT ![s] = ""]
    /\ UNCHANGED << evaluaciones, disponible, hoy, login, seleccionado, resp, evaluaciones_df, panel, clicks >>

\* existe = ...select("id").match({...}).execute(); if existe.data: st.error; st.stop()
\* a raising call lands in "except Exception"
DupCheck(s) ==
    /\ pc[s] = "check"
    /\ IF ~disponible
       THEN /\ msg' = [msg EXCEPT ![s] = "error"]
            /\ pc' = [pc EXCEPT ![s] = "idle"]
            /\ loc' = [loc EXCEPT ![s] = << >>]
       ELSE IF HayDuplicado(existe(evaluaciones, cache, loc[s][1]))
            THEN /\ msg' = [msg EXCEPT ![s] = "duplicado"]
                 /\ pc' = [pc EXCEPT ![s] = "idle"]
                 /\ loc' = [loc EXCEPT ![s] = << >>]
            ELSE /\ pc' = [pc EXCEPT ![s] = "insert"]
                 /\ UNCHANGED << msg, loc >>
    /\ UNCHANGED << evaluaciones, disponible, cache, hoy, login, seleccionado, session_state,
                    resp, evaluaciones_df, panel, clicks >>

\* resp = ...insert(nueva_eval).execute(); if resp.data: st.success ... else: st.error
\* the call raises, or returns the inserted row, or returns no data and inserts nothing
Insert(s) ==
    /\ pc[s] = "insert"
    /\ \E devuelve \in BOOLEAN :
          LET fila == nueva_eval(loc[s][1])
              escritas == IF devuelve THEN << fila >> ELSE << >>
              resp_data == IF devuelve THEN << Len(evaluaciones) + 1 >> ELSE << >>
          IN  IF ~disponible
              THEN /\ msg' = [msg EXCEPT ![s] = "error"]
                   /\ pc' = [pc EXCEPT ![s] = "idle"]
                   /\ UNCHANGED << evaluaciones, resp >>
              ELSE /\ evaluaciones' = InsertRows(evaluaciones, escritas)
                   /\ msg' = [msg EXCEPT ![s] = MensajeInsert(resp_data)]
                   /\ pc' = [pc EXCEPT ![s] = IF resp_data # << >> THEN "clear" ELSE "idle"]
                   /\ resp' = [resp EXCEPT ![s] = resp_data]
    /\ loc' = [loc EXCEPT ![s] = << >>]
    /\ UNCHANGED << disponible, cache, hoy, login, seleccionado, session_state,
                    evaluaciones_df, panel, clicks >>

\* cargar_evaluaciones_join.clear() after st.success
ClearCache(s) ==
    /\ pc[s] = "clear"
    /\ cache' = CacheClear(cache)
    /\ pc' = [pc EXCEPT ![s] = "idle"]
    /\ resp' = [resp EXCEPT ![s] = << >>]
    /\ UNCHANGED << evaluaciones, disponible, hoy, login, seleccionado, session_state,
                    loc, msg, evaluaciones_df, panel, clicks >>

\* ===================================================================
\* Administrator run, environment
\* ===================================================================
\* a run of the administrator panel by the logged-in user usr with the filter
\* choices f (options of the selectboxes of this run):
\* evaluaciones_df = cargar_evaluaciones_join(), then the panel
AdminRun(a, usr, pw, f) ==
    /\ cache' = CacheAfterLoad
    /\ evaluaciones_df' = [evaluaciones_df EXCEPT ![a] = CacheAfterLoad[1].df]
    /\ panel' = [panel EXCEPT ![a] = PanelAcceso(CacheAfterLoad[1].df, usr, pw, f)]
    /\ evaluaciones_df'[a] # evaluaciones_df[a] \/ cache' # cache \/ panel'[a] # panel[a]
    /\ UNCHANGED << evaluaciones, disponible, hoy, login, seleccionado, session_state,
                    pc, loc, msg, resp, clicks >>

\* ttl=60: the entry expires
Expire ==
    /\ cache # << >>
    /\ cache' = << >>
    /\ UNCHANGED << evaluaciones, disponible, hoy, login, seleccionado, session_state,
                    pc, loc, msg, resp, evaluaciones_df, panel, clicks >>

\* storage becomes unreachable / reachable again
CambiaDisponible ==
    /\ disponible' = ~disponible
    /\ UNCHANGED << evaluaciones, cache, hoy, login, seleccionado, session_state,
                    pc, loc, msg, resp, evaluaciones_df, panel, clicks >>

\* the calendar month changes
Tick ==
    /\ Transcurridos(hoy) < MaxTicks
    /\ hoy' = IF hoy.mes = 12
              THEN [hoy EXCEPT !.mes = 1, !.anio = @ + 1]
              ELSE [hoy EXCEPT !.mes = @ + 1]
    /\ UNCHANGED << evaluaciones, disponible, cache, login, seleccionado, session_state,
                    pc, loc, msg, resp, evaluaciones_df, panel, clicks >>

\* the RH sessions that act in SpecForm
FormSessions == { "s1" }

\* the Save protocol, the cache and the administrator runs of all sessions
Next ==
    \/ \E s \in Sessions : \E nombre \in lista_nombres(s) : SelectWorker(s, nombre)
    \/ \E s \in Sessions : ClickGuardar(s)
    \/ \E s \in Sessions : DupCheck(s)
    \/ \E s \in Sessions : Insert(s)
    \/ \E s \in Sessions : ClearCache(s)
    \/ \E a \in Admins : AdminRun(a, "admin_global", roles["admin_global"].password, SinFiltros)
    \/ Expire
    \/ CambiaDisponible
    \/ Tick

Spec == Init /\ [][Next]_vars

\* one RH session filling in the form and saving
NextForm ==
    \/ \E s \in FormSessions : \E nombre \in lista_nombres(s) : SelectWorker(s, nombre)
    \/ \E s \in FormSessions, i \in Metas, nivel \in BotonesMeta : ClickMeta(s, i, nivel)
    \/ \E s \in FormSessions, f \in FactorIds, n \in BotonesFactor : ClickFactor(s, f, n)
    \/ \E s \in FormSessions : ClickGuardar(s)
    \/ \E s \in FormSessions : DupCheck(s)
    \/ \E s \in FormSessions : Insert(s)
    \/ \E s \in FormSessions : ClearCache(s)

SpecForm == InitForm /\ [][NextForm]_vars

\* ------------------------------------------------------------------
\* the administrator panel over the rows earlier Saves have left
\* ------------------------------------------------------------------
\* the row a Save writes for the worker with this id on the date fecha, from a
\* session whose level keys all held previa before the form was drawn and in
\* which the levels of clic were clicked (factor -> level)
FilaGuardada(id, previa, clic, fecha) ==
    LET st0 == Render([w \in WorkerIds |->
                          [meta  |-> [i \in Metas |-> previa],
                           nivel |-> [f \in FactorIds |-> previa]]], id)
        st1 == [st0 EXCEPT ![id].nivel =
                   [f \in FactorIds |-> IF f \in DOMAIN clic THEN clic[f] ELSE @[f]]]
        t   == SelectSeq(trabajadores, LAMBDA x : x.id = id)[1]
    IN  nueva_eval(Locales(st1, t, fecha))

SinClic == [f \in { } |-> 0]

\* rows the table can hold when the administrator looks at it: rows of Saves
\* of the three dependencies' RH users, and a row another client of the table
\* left with a null puntaje_total
FilasPrevias ==
    { FilaGuardada(1, Ausente, [f \in { "mejora" } |-> 3],
                   [dia |-> 15, mes |-> 1, anio |-> 2026]),
      FilaGuardada(2, 4, SinClic, HoyInicial),
      FilaGuardada(3, 1, SinClic, HoyInicial),
      [FilaGuardada(2, Ausente, SinClic, [dia |-> 15, mes |-> 11, anio |-> 2025])
          EXCEPT !.puntaje_total = SqlNull] }

TablasPrevias == UNION { [1..n -> FilasPrevias] : n \in 0..MaxRows }

\* the administrator opens the panel over a table that holds earlier rows;
\* storage answers or not when the list is loaded
InitAdmin ==
    /\ evaluaciones \in TablasPrevias
    /\ disponible \in BOOLEAN
    /\ cache = << >>
    /\ hoy = [dia |-> 15, mes |-> 1, anio |-> 2026]
    /\ login = [s \in Sessions |-> LoginRH]
    /\ seleccionado = [s \in Sessions |-> PrimerNombre(s)]
    /\ session_state =
          [s \in Sessions |->
              Render([w \in WorkerIds |->
                        [meta  |-> [i \in Metas |-> Ausente],
                         nivel |-> [f \in FactorIds |-> Ausente]]],
                     trab(s, PrimerNombre(s)).id)]
    /\ pc = [s \in Sessions |-> "idle"]
    /\ loc = [s \in Sessions |-> << >>]
    /\ msg = [s \in Sessions |-> ""]
    /\ resp = [s \in Sessions |-> << >>]
    /\ evaluaciones_df = [a \in Admins |-> << >>]
    /\ panel = [a \in Admins |->
                   PanelAcceso(<< >>, "admin_global", roles["admin_global"].password,
                               SinFiltros)]
    /\ clicks = 0

\* runs of the panel by every user of the role table, with every choice of
\* the filters the run offers
NextAdmin ==
    \E a \in Admins : \E usr \in DOMAIN roles :
        \E f \in Ofrecidos(CacheAfterLoad[1].df, usr) :
            AdminRun(a, usr, roles[usr].password, f)

SpecAdmin == InitAdmin /\ [][NextAdmin]_vars

\* ------------------------------------------------------------------
\* the two logins: what is typed in the text inputs decides what a run shows
\* ------------------------------------------------------------------
\* seleccionado of a session whose run did not reach the selectbox
SinSeleccion == "sin_seleccion"

\* the users and the passwords that are typed: the RH user, an administrator,
\* a user that is not in the role table; their passwords and the empty input
Usuarios == { "rh_salud", "admin_salud", "desconocido" }

Passwords == { roles["rh_salud"].password, roles["admin_salud"].password, "" }

\* the names of all workers
Nombres == { trabajadores[i].nombre : i \in DOMAIN trabajadores }

\* the text inputs of the RH mode change: rerun. The form is drawn only inside
\* the credential test; nothing is drawn when the test fails
Teclear(s, usr, pw) ==
    /\ pc[s] = "idle"
    /\ login[s] # [usuario |-> usr, password |-> pw]
    /\ login' = [login EXCEPT ![s] = [usuario |-> usr, password |-> pw]]
    /\ IF AccesoRH(usr, pw)
       THEN \E nombre \in Nombres :
               /\ nombre = IF seleccionado[s] \in lista_nombres(s)'
                           THEN seleccionado[s] ELSE PrimerNombre(s)'
               /\ seleccionado' = [seleccionado EXCEPT ![s] = nombre]
               /\ session_state' =
                    [session_state EXCEPT ![s] = Render(@, trab(s, nombre)'.id)]
       ELSE /\ seleccionado' = [seleccionado EXCEPT ![s] = SinSeleccion]
            /\ UNCHANGED session_state
    /\ cache' = CacheAfterLoad
    /\ msg' = [msg EXCEPT ![s] = ""]
    /\ UNCHANGED << evaluaciones, disponible, hoy, pc, loc, resp, evaluaciones_df,
                    panel, clicks >>

\* one RH session and one administrator session, both with empty text inputs
InitAcceso ==
    /\ evaluaciones = << >>
    /\ disponible = TRUE
    /\ cache = << >>
    /\ hoy = HoyInicial
    /\ login = [s \in Sessions |-> [usuario |-> "", password |-> ""]]
    /\ seleccionado = [s \in Sessions |-> SinSeleccion]
    /\ session_state = [s \in Sessions |->
                           [w \in WorkerIds |->
                               [meta  |-> [i \in Metas |-> Ausente],
                                nivel |-> [f \in FactorIds |-> Ausente]]]]
    /\ pc = [s \in Sessions |-> "idle"]
    /\ loc = [s \in Sessions |-> << >>]
    /\ msg = [s \in Sessions |-> ""]
    /\ resp = [s \in Sessions |-> << >>]
    /\ evaluaciones_df = [a \in Admins |-> << >>]
    /\ panel = [a \in Admins |-> PanelAcceso(<< >>, "", "", SinFiltros)]
    /\ clicks = 0

NextAcceso ==
    \/ \E s \in FormSessions, usr \in Usuarios, pw \in Passwords : Teclear(s, usr, pw)
    \/ \E s \in FormSessions : \E nombre \in Nombres : SelectWorker(s, nombre)
    \/ \E s \in FormSessions : ClickGuardar(s)
    \/ \E s \in FormSessions : DupCheck(s)
    \/ \E s \in FormSessions : Insert(s)
    \/ \E s \in FormSessions : ClearCache(s)
    \/ \E a \in Admins, usr \in Usuarios, pw \in Passwords :
           AdminRun(a, usr, pw, SinFiltros)

SpecAcceso == InitAcceso /\ [][NextAcceso]_vars


\* ===================================================================
\* Properties
\* ===================================================================
\* the twelve factor columns of evaluaciones and the tier table, as the
\* specification lists them
ColumnasFactor ==
    << "conocimiento", "criterio", "calidad", "tecnica", "supervision", "capacitacion",
       "iniciativa", "colaboracion", "responsabilidad", "equipo", "relaciones", "mejora" >>

TablaTramos == << 25, 50, 75, 100 >>

RECURSIVE SumaColumnas(_, _)
SumaColumnas(fila, n) ==
    IF n = 0 THEN 0 ELSE fila.factores[ColumnasFactor[n]] + SumaColumnas(fila, n - 1)

\* the worker context of the run of session s
Ctx(s) == trab(s, seleccionado[s]).id

\* the raw programmed value of goal i of the worker with this id
ProgCrudo(id, i) == TrabajadorDe(id).meta_prog[i]

\* ---- C1: after any sequence of Saves by any number of sessions, also two
\* sessions saving concurrently for the same worker and month, evaluaciones
\* holds at most one row per (trabajador_id, mes, anio)
C1_UnaPorPeriodo ==
    \A i, j \in DOMAIN evaluaciones :
        i # j => \/ evaluaciones[i].trabajador_id # evaluaciones[j].trabajador_id
                 \/ evaluaciones[i].mes # evaluaciones[j].mes
                 \/ evaluaciones[i].anio # evaluaciones[j].anio

\* ---- C2: when the duplicate check of a Save runs while a row for its
\* (trabajador_id, mes, anio) is in evaluaciones, the Save ends there: it
\* reports the duplicate (storage answering the check), goes on to no insert,
\* and the table, with the existing row, is unchanged
C2_DuplicadoRechazado ==
    [][\A s \in Sessions :
          (/\ pc[s] = "check"
           /\ pc'[s] # "check"
           /\ Match(evaluaciones, loc[s][1]) # << >>)
          => /\ evaluaciones' = evaluaciones
             /\ pc'[s] = "idle"
             /\ msg'[s] \in { "duplicado", "error" }
             /\ disponible => msg'[s] = "duplicado"]_vars

\* a Save was refused as duplicate while another session's row is stored
C2_Witness ==
    \E s \in Sessions :
        /\ msg[s] = "duplicado"
        /\ pc[s] = "idle"
        /\ \E i \in DOMAIN evaluaciones :
              evaluaciones[i].trabajador_id = Ctx(s)

\* ---- C3: every row Save writes has puntaje_total equal to the sum of the
\* twelve factor columns of that row, whatever was clicked before
C3_TotalEsSuma ==
    \A i \in DOMAIN evaluaciones :
        evaluaciones[i].puntaje_total = SumaColumnas(evaluaciones[i], Len(ColumnasFactor))

\* a row written after a click, whose total is not the default one
C3_Witness ==
    /\ clicks > 0
    /\ \E i \in DOMAIN evaluaciones : evaluaciones[i].puntaje_total \notin { 24, 12, 48 }

\* ---- C4: after any sequence of level clicks every factor selection is in
\* 1..4 and the total the run computes is between 12 and 48
C4_NivelesYTotalEnRango ==
    \A s \in Sessions :
        /\ \A w \in WorkerIds : \A f \in FactorIds :
              session_state[s][w].nivel[f] \in { Ausente } \cup 1..4
        /\ \A f \in FactorIds : session_state[s][Ctx(s)].nivel[f] \in 1..4
        /\ puntaje_total(calidad_de(session_state[s], Ctx(s))) \in 12..48

\* a click has been made and the total sits on a limit of the range
C4_Witness ==
    /\ clicks > 0
    /\ \E s \in Sessions :
          puntaje_total(calidad_de(session_state[s], Ctx(s))) \in { 12, 48 }

\* ---- C5: the stored percentage of a goal is 25, 50, 75, 100 for selected
\* level 1, 2, 3, 4, and resultado1..3 of every written row is one of these
C5_PorcentajePorNivel ==
    /\ \A n \in 1..4 : pct_guardado(n) = TablaTramos[n]
    /\ \A s \in Sessions :
          loc[s] # << >> =>
             \A i \in Metas :
                /\ session_state[s][loc[s][1].trabajador_id].meta[i] \in 1..4
                /\ loc[s][1].resultados[i] =
                      TablaTramos[session_state[s][loc[s][1].trabajador_id].meta[i]]
    /\ \A r \in DOMAIN evaluaciones : \A i \in Metas :
          evaluaciones[r].resultado[i] \in { 25, 50, 75, 100 }

\* a row written after a goal click, with two different percentages in it
C5_Witness ==
    /\ clicks > 0
    /\ \E r \in DOMAIN evaluaciones :
          evaluaciones[r].resultado[1] # evaluaciones[r].resultado[2]

\* ---- C6: for every level L and programmed value P >= 0 of a goal, the real
\* value written is P x (stored percentage of L) / 100  (amounts in hundredths)
C6_RealEsProgPorTramo ==
    /\ \A s \in Sessions :
          loc[s] # << >> =>
             \A i \in Metas :
                LET crudo == ProgCrudo(loc[s][1].trabajador_id, i)
                    L == session_state[s][loc[s][1].trabajador_id].meta[i]
                IN  crudo.k = "num" => loc[s][1].meta_real[i] = crudo.v * TablaTramos[L]
    /\ \A r \in DOMAIN evaluaciones : \A i \in Metas :
          LET crudo == ProgCrudo(evaluaciones[r].trabajador_id, i)
          IN  crudo.k = "num" =>
                 evaluaciones[r].meta_real[i] = crudo.v * evaluaciones[r].resultado[i]

\* scenario B in a written row: programmed 80 at level 2 gives 40.00
C6_Witness ==
    \E r \in DOMAIN evaluaciones :
        /\ ProgCrudo(evaluaciones[r].trabajador_id, 1) = Num(80)
        /\ evaluaciones[r].resultado[1] = 50
        /\ evaluaciones[r].meta_real[1] = 4000

\* ---- C7: if the programmed value of a goal is 0 or absent (null, empty or
\* non-numeric in the worker record), the real value written for it is 0
C7_AusenteDaCero ==
    /\ \A s \in Sessions :
          loc[s] # << >> =>
             \A i \in Metas :
                LET crudo == ProgCrudo(loc[s][1].trabajador_id, i)
                IN  (crudo.k # "num" \/ crudo.v = 0) => loc[s][1].meta_real[i] = 0
    /\ \A r \in DOMAIN evaluaciones : \A i \in Metas :
          LET crudo == ProgCrudo(evaluaciones[r].trabajador_id, i)
          IN  (crudo.k # "num" \/ crudo.v = 0) => evaluaciones[r].meta_real[i] = 0

\* row i was inserted by a Save that has not reached its cache clear yet
RowPendiente(i) == \E s \in Sessions : pc[s] = "clear" /\ resp[s] = << i >>

C10_FalloSinEscritura ==
    [][\A s \in Sessions :
          /\ (pc[s] = "check" /\ pc'[s] # "check" /\ ~disponible)
                => /\ msg'[s] = "error"
                   /\ pc'[s] = "idle"
                   /\ evaluaciones' = evaluaciones
          /\ (pc[s] = "insert" /\ pc'[s] # "insert" /\ (~disponible \/ resp'[s] = << >>))
                => /\ msg'[s] = "error"
                   /\ pc'[s] = "idle"
                   /\ evaluaciones' = evaluaciones]_vars

\* a Save ended in an error and wrote nothing, after another one had succeeded
C10_Witness ==
    \E s \in Sessions :
        /\ msg[s] = "error"
        /\ pc[s] = "idle"
        /\ \A i \in DOMAIN evaluaciones : evaluaciones[i].trabajador_id # Ctx(s)

\* ---- C11: a click on Save issues at most one duplicate query and at most one
\* insert, the insert only after the query answered with no row; a failed
\* call ends the run, nothing is tried again
C11_UnaConsultaUnInsert ==
    [][\A s \in Sessions :
          /\ pc[s] = "idle"   => pc'[s] \in { "idle", "check" }
          /\ pc[s] = "check"  => pc'[s] \in { "check", "idle", "insert" }
          /\ pc[s] = "insert" => pc'[s] \in { "insert", "idle", "clear" }
          /\ pc[s] = "clear"  => pc'[s] \in { "clear", "idle" }
          /\ (pc[s] = "check" /\ pc'[s] = "insert")
                => disponible /\ Match(evaluaciones, loc[s][1]) = << >>
          /\ (pc[s] # "idle" /\ msg'[s] = "error") => pc'[s] = "idle"
          /\ (pc[s] = "insert" /\ pc'[s] # "insert")
                => Len(evaluaciones') <= Len(evaluaciones) + 1
          /\ pc[s] # "insert" /\ (\A t \in Sessions \ {s} : pc'[t] = pc[t])
                => evaluaciones' = evaluaciones]_vars

\* a Save has made its one query and its one insert, with a row of an
\* earlier Save already stored
C11_Witness ==
    \E s \in Sessions :
        /\ pc[s] = "clear"
        /\ resp[s] = << Len(evaluaciones) >>
        /\ Len(evaluaciones) >= 2

\* ---- C17: the only write to storage is the insert of one new evaluaciones
\* row by Save: every step leaves the stored rows as they are, in place, and
\* adds at most one row, and only the insert step of a Save adds it
C17_SoloInserta ==
    [][/\ Len(evaluaciones') >= Len(evaluaciones)
       /\ Len(evaluaciones') <= Len(evaluaciones) + 1
       /\ \A i \in DOMAIN evaluaciones :
             i \in DOMAIN evaluaciones' /\ evaluaciones'[i] = evaluaciones[i]
       /\ evaluaciones' # evaluaciones
             => \E s \in Sessions : pc[s] = "insert" /\ pc'[s] = "clear"]_vars

\* two different rows are stored after two completed Saves
C17_Witness ==
    /\ Len(evaluaciones) >= 2
    /\ evaluaciones[1] # evaluaciones[2]
    /\ \A s \in Sessions : pc[s] = "idle" /\ msg[s] = "exito"

\* ---- C12: a row written by Save, read back through cargar_evaluaciones_join,
\* shows the three stored percentages, the twelve factor scores and the total
\* that were written
C12_IdaYVuelta ==
    \A a \in Admins : \A j \in DOMAIN evaluaciones_df[a] :
        LET leida == evaluaciones_df[a][j]
        IN  /\ "id" \in DOMAIN leida
            /\ leida["id"] \in DOMAIN evaluaciones
            /\ LET escrita == evaluaciones[leida["id"]]
               IN  /\ { "resultado1", "resultado2", "resultado3", "puntaje_total" }
                         \subseteq DOMAIN leida
                   /\ leida["resultado1"] = escrita.resultado[1]
                   /\ leida["resultado2"] = escrita.resultado[2]
                   /\ leida["resultado3"] = escrita.resultado[3]
                   /\ \A k \in DOMAIN ColumnasFactor :
                         /\ ColumnasFactor[k] \in DOMAIN leida
                         /\ leida[ColumnasFactor[k]] = escrita.factores[ColumnasFactor[k]]
                   /\ leida["puntaje_total"] = escrita.puntaje_total

\* an administrator run has read back two rows written with different levels
C12_Witness ==
    \E a \in Admins :
        /\ Len(evaluaciones_df[a]) >= 2
        /\ evaluaciones_df[a][1]["puntaje_total"] # evaluaciones_df[a][2]["puntaje_total"]
        /\ evaluaciones_df[a][1]["resultado1"] # evaluaciones_df[a][2]["resultado1"]

\* ---- C18: a level click writes nothing to storage; only the insert of a Save
\* writes, and the row it writes has the twelve factor columns conocimiento ...
\* mejora, each with the level selected in the session for the factor of that
\* identifier; labels and columns of map_factores are in one-to-one
\* correspondence
C18_SoloGuardarEscribeDoce ==
    [][/\ clicks' # clicks => evaluaciones' = evaluaciones
       /\ evaluaciones' # evaluaciones =>
             \E s \in Sessions :
                /\ pc[s] = "insert"
                /\ Len(evaluaciones') = Len(evaluaciones) + 1
                /\ LET r == evaluaciones'[Len(evaluaciones')]
                   IN  /\ DOMAIN r.factores =
                             { ColumnasFactor[k] : k \in DOMAIN ColumnasFactor }
                       /\ \A k \in DOMAIN ColumnasFactor :
                             r.factores[ColumnasFactor[k]] =
                                session_state[s][r.trabajador_id].nivel[ColumnasFactor[k]]
       /\ Len(map_factores) = Len(ColumnasFactor)
       /\ \A k \in DOMAIN ColumnasFactor :
             \E i \in DOMAIN map_factores :
                /\ map_factores[i][2] = ColumnasFactor[k]
                /\ map_factores[i][1] = FACTORES_ORDEN[k][2]
                /\ FACTORES_ORDEN[k][1] = ColumnasFactor[k]
                /\ \A h \in DOMAIN map_factores :
                      (map_factores[h][2] = ColumnasFactor[k]
                         \/ map_factores[h][1] = FACTORES_ORDEN[k][2]) => h = i]_vars

\* a row written after a factor click: two of its factor columns differ
C18_Witness ==
    /\ clicks > 0
    /\ \E i \in DOMAIN evaluaciones :
          evaluaciones[i].factores["criterio"] # evaluaciones[i].factores["calidad"]

\* ---- C19: with no prior selection in the session, the keys a run creates
\* hold level 1 for each goal and level 2 for each factor, and a Save made
\* before any level click writes resultado1..3 = 25 and puntaje_total = 24
C19_ValoresPorDefecto ==
    /\ (\A s \in Sessions : \A w \in WorkerIds :
           /\ \A i \in Metas : session_state[s][w].meta[i] \in { Ausente, 1 }
           /\ \A f \in FactorIds : session_state[s][w].nivel[f] \in { Ausente, 2 })
       => [](clicks = 0 =>
               /\ \A s \in Sessions :
                     /\ \A i \in Metas : session_state[s][Ctx(s)].meta[i] = 1
                     /\ \A f \in FactorIds : session_state[s][Ctx(s)].nivel[f] = 2
               /\ \A r \in DOMAIN evaluaciones :
                     /\ \A i \in Metas : evaluaciones[r].resultado[i] = 25
                     /\ evaluaciones[r].puntaje_total = 24)
    /\ [][\A s \in Sessions : \A w \in WorkerIds :
             /\ \A i \in Metas :
                   (session_state[s][w].meta[i] = Ausente
                      /\ session_state'[s][w].meta[i] # Ausente)
                   => session_state'[s][w].meta[i] = 1
             /\ \A f \in FactorIds :
                   (session_state[s][w].nivel[f] = Ausente
                      /\ session_state'[s][w].nivel[f] # Ausente)
                   => session_state'[s][w].nivel[f] = 2]_vars

\* no click was made and the row of a worker whose form was first drawn after
\* the start is stored with the default figures
C19_Witness ==
    /\ clicks = 0
    /\ \E s \in Sessions : \E r \in DOMAIN evaluaciones :
          /\ session_state[s][3].meta[1] = Ausente
          /\ evaluaciones[r].trabajador_id = 2
          /\ evaluaciones[r].resultado[1] = 25
          /\ evaluaciones[r].puntaje_total = 24

\* ---- C20: every row an RH session writes has the trabajador_id of a worker
\* whose dependencia, trimmed and lower-cased, equals that of the RH user's
\* dependency; the row a running Save is about to write is of such a worker too
C20_SoloSuDependencia ==
    [][\A s \in Sessions :
          /\ loc'[s] # << >> =>
                StripLower(TrabajadorDe(loc'[s][1].trabajador_id).dependencia)
                   = StripLower(roles[usuario[s]].area)
          /\ (pc[s] = "insert" /\ evaluaciones' # evaluaciones) =>
                \A i \in DOMAIN evaluaciones' \ DOMAIN evaluaciones :
                   StripLower(TrabajadorDe(evaluaciones'[i].trabajador_id).dependencia)
                      = StripLower(roles[usuario[s]].area)]_vars

\* a row is stored for a worker whose dependencia is written in another case
\* and with blanks around it than the dependency of the RH user
C20_Witness ==
    \E i \in DOMAIN evaluaciones :
        /\ TrabajadorDe(evaluaciones[i].trabajador_id).dependencia # roles["rh_salud"].area
        /\ StripLower(TrabajadorDe(evaluaciones[i].trabajador_id).dependencia)
              = StripLower(roles["rh_salud"].area)

\* the row of the frame is within the scope of the user
EnAlcance(usr, leida) ==
    \/ roles[usr].rol = "admin_global"
    \/ StripLower(TrabajadorDe(leida["trabajador_id"]).dependencia)
          = StripLower(roles[usr].area)

\* the worker of the row has the value of every filter that is set
Cumple(f, leida) ==
    LET t == TrabajadorDe(leida["trabajador_id"])
    IN  /\ f.nombre = "(Todos)" \/ t.nombre = f.nombre
        /\ f.dependencia = "(Todas)" \/ t.dependencia = f.dependencia
        /\ f.area = "(Todas)" \/ t.area_adscripcion = f.area
        /\ f.puesto = "(Todos)" \/ t.puesto = f.puesto

\* ---- C13: the rows the panel shows are exactly the in-scope rows of the
\* list whose worker has the chosen name, dependency, area and post, a
\* filter left at its first option restricting nothing
C13_ConjuntoFiltrado ==
    \A a \in Admins :
        panel[a].estado \in { "ok", "sin_coincidencias" } =>
           /\ { panel[a].filas[k].fila["id"] : k \in DOMAIN panel[a].filas }
                 = { evaluaciones_df[a][j]["id"] :
                        j \in { i \in DOMAIN evaluaciones_df[a] :
                                   /\ EnAlcance(panel[a].usuario, evaluaciones_df[a][i])
                                   /\ Cumple(panel[a].filtros, evaluaciones_df[a][i]) } }
           /\ \A k, h \in DOMAIN panel[a].filas :
                 panel[a].filas[k].fila["id"] = panel[a].filas[h].fila["id"] => k = h

\* ---- C14: for an administrator of one dependency every row shown (these are
\* the rows counted and averaged) and every name, area and post offered in a
\* filter comes from a row of the list whose worker's dependencia, trimmed and
\* lower-cased, equals the permitted one; no dependency option is offered
C14_SoloSuAlcance ==
    \A a \in Admins :
        LET p == panel[a]
            permitida(leida) ==
                StripLower(TrabajadorDe(leida["trabajador_id"]).dependencia)
                   = StripLower(roles[p.usuario].area)
            propias == { j \in DOMAIN evaluaciones_df[a] : permitida(evaluaciones_df[a][j]) }
        IN  roles[p.usuario].rol = "admin_area" =>
               /\ \A k \in DOMAIN p.filas :
                     \E j \in propias : evaluaciones_df[a][j]["id"] = p.filas[k].fila["id"]
               /\ p.registros \in { << >>, << Len(p.filas) >> }
               /\ p.total_evals \in { << >>, << Len(p.filas) >> }
               /\ \A n \in p.opciones.nombres :
                     \E j \in propias :
                        TrabajadorDe(evaluaciones_df[a][j]["trabajador_id"]).nombre = n
               /\ \A n \in p.opciones.areas :
                     \E j \in propias :
                        TrabajadorDe(evaluaciones_df[a][j]["trabajador_id"]).area_adscripcion = n
               /\ \A n \in p.opciones.puestos :
                     \E j \in propias :
                        TrabajadorDe(evaluaciones_df[a][j]["trabajador_id"]).puesto = n
               /\ p.opciones.dependencias = { }

\* an administrator of one dependency sees fewer rows than the list holds,
\* among them the row of a worker whose dependencia is written differently
C14_Witness ==
    \E a \in Admins :
        /\ panel[a].usuario = "admin_salud"
        /\ panel[a].estado = "ok"
        /\ Len(panel[a].filas) < Len(evaluaciones_df[a])
        /\ \E k \in DOMAIN panel[a].filas :
              panel[a].filas[k].fila["dependencia"] # roles["admin_salud"].area

\* the rows of the frame within the scope of the user of the last run
FilasEnAlcance(a) ==
    { j \in DOMAIN evaluaciones_df[a] : EnAlcance(panel[a].usuario, evaluaciones_df[a][j]) }

\* the three warnings that stand for "no data"
SinDatos == { "sin_evaluaciones", "sin_dependencia", "sin_coincidencias" }

\* ---- C15: when the evaluation list is empty, when no row of it is within the
\* scope of the role, or when the filters of the run leave no row, the panel
\* shows the warning of that case and computes no mean and no count; a mean
\* is shown only over at least one row
C15_VacioSinPromedio ==
    \A a \in Admins :
        LET p == panel[a]
        IN  EsAdmin(p.usuario) =>
               /\ p.estado \in SinDatos \cup { "ok" }
               /\ evaluaciones_df[a] = << >> => p.estado = "sin_evaluaciones"
               /\ (evaluaciones_df[a] # << >> /\ FilasEnAlcance(a) = { })
                     => p.estado = "sin_dependencia"
               /\ (FilasEnAlcance(a) # { } /\ p.filas = << >>)
                     => p.estado = "sin_coincidencias" /\ p.registros = << 0 >>
               /\ p.estado \in SinDatos
                     => p.filas = << >> /\ p.promedio = << >> /\ p.total_evals = << >>
               /\ p.promedio # << >> => p.filas # << >> /\ p.estado = "ok"

\* scenario E: the list holds rows, none of the administrator's dependency
C15_Witness ==
    \E a \in Admins :
        /\ panel[a].usuario = "admin_educacion"
        /\ evaluaciones_df[a] # << >>
        /\ panel[a].estado = "sin_dependencia"
        /\ panel[a].promedio = << >>

\* ---- C16: for a non-empty result the count shown is the number of rows of
\* the result and the mean shown is the sum of puntaje_total over these same
\* rows divided by the count, rounded to 2 decimals (hundredths); every
\* counted row is a row the mean ranges over
C16_CuentaYPromedio ==
    \A a \in Admins :
        LET p == panel[a]
            serie == [k \in DOMAIN p.filas |-> p.filas[k].fila["puntaje_total"]]
            n == Len(p.filas)
        IN  p.estado = "ok" =>
               /\ p.total_evals = << n >>
               /\ p.registros = << n >>
               /\ \A k \in DOMAIN serie : serie[k] # NaN
               /\ p.promedio # << >>
               /\ 2 * (n * p.promedio[1] - 100 * SumaSerie(serie)) <= n
               /\ 2 * (100 * SumaSerie(serie) - n * p.promedio[1]) <= n

\* the level keys of session s that differ between two session states
ClavesCambiadas(antes, despues) ==
    { k \in WorkerIds \X { "meta" } \X Metas :
         antes[k[1]].meta[k[3]] # despues[k[1]].meta[k[3]] } \cup
    { k \in WorkerIds \X { "nivel" } \X FactorIds :
         antes[k[1]].nivel[k[3]] # despues[k[1]].nivel[k[3]] }

\* ---- C21: a click on a level button changes at most the one key of that
\* goal or factor of the selected worker; the keys of the other goals and
\* factors, those kept for other workers and those of other sessions stay as
\* they are; a step without a click only creates missing keys; and the row a
\* Save writes for a worker holds the levels kept under that worker's keys
C21_ClicSoloUnaClave ==
    [][\A s \in Sessions :
          /\ clicks' # clicks =>
                /\ Cardinality(ClavesCambiadas(session_state[s], session_state'[s])) <= 1
                /\ \A k \in ClavesCambiadas(session_state[s], session_state'[s]) :
                      k[1] = Ctx(s)
                /\ seleccionado' = seleccionado
          /\ clicks' = clicks =>
                \A w \in WorkerIds :
                   /\ \A i \in Metas : session_state[s][w].meta[i] # Ausente
                         => session_state'[s][w].meta[i] = session_state[s][w].meta[i]
                   /\ \A f \in FactorIds : session_state[s][w].nivel[f] # Ausente
                         => session_state'[s][w].nivel[f] = session_state[s][w].nivel[f]
          /\ (pc[s] = "insert" /\ evaluaciones' # evaluaciones) =>
                LET r == evaluaciones'[Len(evaluaciones')]
                IN  /\ \A f \in FactorIds :
                          r.factores[f] = session_state[s][r.trabajador_id].nivel[f]
                    /\ \A i \in Metas :
                          r.resultado[i] =
                             pct_guardado(session_state[s][r.trabajador_id].meta[i])]_vars

\* a level was clicked for worker 1, and the row written afterwards for
\* worker 2 holds none of it
C21_Witness ==
    \E s \in Sessions : \E r \in DOMAIN evaluaciones :
        /\ clicks > 0
        /\ session_state[s][3].meta[1] = Ausente
        /\ \/ \E i \in Metas : session_state[s][1].meta[i] # 1
           \/ \E f \in FactorIds : session_state[s][1].nivel[f] # 2
        /\ evaluaciones[r].trabajador_id = 2
        /\ evaluaciones[r].puntaje_total = 24
        /\ \A i \in Metas : evaluaciones[r].resultado[i] = 25

\* ---- C22: every row the panel shows carries the post of the worker with the
\* row's trabajador_id, and with a post chosen in the filter the rows shown
\* are exactly the in-scope rows (matching the other filters) of workers who
\* hold that post, also for an administrator of one dependency whose rows are
\* not the first of the list
C22_PuestoDelTrabajador ==
    \A a \in Admins :
        LET p == panel[a]
        IN  /\ \A k \in DOMAIN p.filas :
                  p.filas[k].fila["puesto"]
                     = TrabajadorDe(p.filas[k].fila["trabajador_id"]).puesto
            /\ (p.estado \in { "ok", "sin_coincidencias" } /\ p.filtros.puesto # "(Todos)")
                  => \A j \in FilasEnAlcance(a) :
                        Cumple(p.filtros, evaluaciones_df[a][j])
                           <=> \E k \in DOMAIN p.filas :
                                  p.filas[k].fila["id"] = evaluaciones_df[a][j]["id"]

\* ---- C23: the duplicate decision of a Save is taken on the rows in storage
\* when the check runs, whatever the cached evaluation list holds: with
\* storage answering, the Save is refused exactly when storage has a row of
\* the same worker, month and year
C23_DuplicadoSegunAlmacen ==
    [][\A s \in Sessions :
          (pc[s] = "check" /\ pc'[s] # "check" /\ disponible) =>
             /\ Match(evaluaciones, loc[s][1]) # << >>
                   => msg'[s] = "duplicado" /\ pc'[s] = "idle"
             /\ Match(evaluaciones, loc[s][1]) = << >>
                   => msg'[s] # "duplicado" /\ pc'[s] = "insert"]_vars

\* a Save was refused for a row another session inserted, while the cached
\* list, made before that insert, does not hold the row
C23_Witness ==
    \E s \in Sessions :
        /\ msg[s] = "duplicado"
        /\ pc[s] = "idle"
        /\ cache # << >>
        /\ \A j \in DOMAIN cache[1].df : cache[1].df[j]["trabajador_id"] # Ctx(s)
        /\ \E i \in DOMAIN evaluaciones : evaluaciones[i].trabajador_id = Ctx(s)
        /\ \E t \in Sessions \ { s } : pc[t] = "clear"

\* the cache entry is the empty frame a failed read returned (storage held rows)
LecturaFallida(e) == e.df = << >> /\ e.stamp > 0

\* ---- C24: a failed read of the list is not remembered: an administrator
\* run made while storage answers does not show the empty result of an
\* earlier failed read
C24_FalloNoRecordado ==
    [][\A a \in Admins :
          (disponible /\ (evaluaciones_df'[a] # evaluaciones_df[a] \/ panel'[a] # panel[a]))
             => ~(cache' # << >> /\ LecturaFallida(cache'[1])
                    /\ evaluaciones_df'[a] = << >>)]_vars

\* ---- C25: for every worker row of the RH user's dependency there is a name
\* in the worker selector with which the run computes, and Save writes, a row
\* with the id of that worker, also when two workers of the dependency have
\* the same name
C25_TodoTrabajadorElegible ==
    \A s \in Sessions : \A i \in DOMAIN trabajadores :
        StripLower(trabajadores[i].dependencia) = StripLower(roles[usuario[s]].area)
           => \E nombre \in lista_nombres(s) :
                 nueva_eval(Locales(Render(session_state[s], trab(s, nombre).id),
                                    trab(s, nombre), hoy)).trabajador_id
                    = trabajadores[i].id

\* ---- C26: the administrator panel is shown only for a user/password pair of
\* the role table whose role starts with "admin", and the evaluation form and
\* the Save handler are reached only with a pair of the table whose role is
\* "rh": an rh credential, an unknown user or a wrong password never shows the
\* panel, an admin credential or a wrong password never reaches the form or Save
C26_AccesoPorRol ==
    /\ \A a \in Admins :
          panel[a].estado # "rechazado" =>
             /\ panel[a].usuario \in DOMAIN roles
             /\ panel[a].password = roles[panel[a].usuario].password
             /\ roles[panel[a].usuario].rol \in { "admin_global", "admin_area" }
    /\ \A s \in Sessions :
          (seleccionado[s] # SinSeleccion \/ pc[s] # "idle") =>
             /\ login[s].usuario \in DOMAIN roles
             /\ login[s].password = roles[login[s].usuario].password
             /\ roles[login[s].usuario].rol = "rh"

\* a Save went through with the rh pair; afterwards the RH mode was given an
\* administrator's right pair and draws no form, and the administrator mode was
\* given the rh pair and draws no panel
C26_Witness ==
    /\ Len(evaluaciones) > 0
    /\ login["s1"] = [usuario |-> "admin_salud",
                      password |-> roles["admin_salud"].password]
    /\ seleccionado["s1"] = SinSeleccion
    /\ panel["a1"].usuario = "rh_salud"
    /\ panel["a1"].password = roles["rh_salud"].password
    /\ panel["a1"].estado = "rechazado"

====
